---- MODULE Spec2Model ----
(***************************************************************************)
(* Model of the satellite position service (src/app/api/satellites/        *)
(* route.ts): the GET handler, its two module-level cache tables           *)
(* (orbitCache, positionCache), the element-set loader and normalizer,     *)
(* and the position computer; and of the globe component                   *)
(* (src/app/components/satellite-globe.tsx): its refresh effect and its    *)
(* transition engine.                                                      *)
(*                                                                         *)
(* JavaScript values are tagged records ([t |-> "num", v |-> ...],         *)
(* [t |-> "str", ...], null, undefined, NaN, +/-Infinity).  Finite numbers *)
(* are fixed-point integers counting thousandths (Unit = 1000).  Instants  *)
(* (Date.now(), ISO timestamps) are plain integers in milliseconds.        *)
(***************************************************************************)
EXTENDS Integers, Sequences, FiniteSets, TLC

(***************************************************************************)
(* Program constants (route.ts:12-17, satellite-globe.tsx:60-62)           *)
(***************************************************************************)
DEFAULT_GROUP == "active"
REQUEST_TIMEOUT_MS == 25000
ORBIT_CACHE_TTL_MS == 30 * 60 * 1000
POSITION_CACHE_TTL_MS == 5000
ALLOWED_GROUPS == {"active", "stations", "starlink"}
EARTH_RADIUS_KM == 6371
REFRESH_INTERVAL_MS == 10000
MOTION_DURATION_MS == 8500

(***************************************************************************)
(* Bounds of the model                                                     *)
(***************************************************************************)
NReq == 2
MaxArrivals == 2
MaxTicks == 2
MaxPayloadLen == 3
MaxSessions == 2
MaxFetches == 3
MaxElapses == 2

(***************************************************************************)
(* JavaScript values                                                       *)
(***************************************************************************)
Unit == 10 * 100
Num(v) == [t |-> "num", v |-> v]
Str(s) == [t |-> "str", s |-> s]
Null == [t |-> "null"]
Undefined == [t |-> "undefined"]
NaN == [t |-> "nan"]
PosInf == [t |-> "inf"]
NegInf == [t |-> "-inf"]

\* typeof value === "number"
IsNumber(x) == x.t \in {"num", "nan", "inf", "-inf"}
\* Number.isFinite(value)
IsFinite(x) == x.t = "num"
\* typeof value === "string"
IsString(x) == x.t = "str"

\* Number(string): the numeric value of a string literal, NaN when the
\* literal is not a numeric string.  Whitespace-only and empty strings are 0.
StringToNumber(s) ==
  CASE s = "" -> Num(0)
    [] s = " " -> Num(0)
    [] s = "0" -> Num(0)
    [] s = "1" -> Num(1 * Unit)
    [] s = "2" -> Num(2 * Unit)
    [] s = "3" -> Num(3 * Unit)
    [] s = "5" -> Num(5 * Unit)
    [] s = "-1" -> Num(-1 * Unit)
    [] s = "-0.5" -> Num(-500)
    [] s = "0.5" -> Num(500)
    [] s = "0.999" -> Num(999)
    [] s = "1.5" -> Num(1500)
    [] s = "2.0" -> Num(2 * Unit)
    [] s = "1e0" -> Num(1 * Unit)
    [] s = "0x2" -> Num(2 * Unit)
    [] s = "Infinity" -> PosInf
    [] s = "-Infinity" -> NegInf
    [] OTHER -> NaN

\* Math.floor on a finite number
MathFloor(x) == Num((x.v \div Unit) * Unit)

\* String(number) of an integer-valued finite number, as in a template literal
NumberToString(x) == ToString(x.v \div Unit)

\* String.prototype.toLowerCase over the group names the model sends
ToLowerCase(s) ==
  CASE s = "ACTIVE" -> "active"
    [] s = "STATIONS" -> "stations"
    [] s = "Stations" -> "stations"
    [] s = "Starlink" -> "starlink"
    [] s = "STARLINK" -> "starlink"
    [] s = "BOGUS" -> "bogus"
    [] OTHER -> s

(***************************************************************************)
(* Request parameter validation (route.ts:270-292)                         *)
(***************************************************************************)
\* parseLimit(limitParam: string | null): number | null.  "!limitParam" is
\* true of null and of the empty string.
parseLimit(limitParam) ==
  IF limitParam = Null \/ limitParam = Str("")
  THEN Null
  ELSE LET parsed == StringToNumber(limitParam.s)
       IN IF ~IsFinite(parsed) \/ parsed.v <= 0
          THEN Null
          ELSE MathFloor(parsed)

\* (url.searchParams.get("group") ?? DEFAULT_GROUP).toLowerCase()
requestedGroup(groupParam) ==
  ToLowerCase(IF groupParam = Null THEN DEFAULT_GROUP ELSE groupParam.s)

\* A validation without the fallback to the default group
resolveGroup_NoFallback(groupParam) == requestedGroup(groupParam)

\* ALLOWED_GROUPS.has(requestedGroup) ? requestedGroup : DEFAULT_GROUP
resolveGroup(groupParam) ==
  IF requestedGroup(groupParam) \in ALLOWED_GROUPS
  THEN requestedGroup(groupParam)
  ELSE DEFAULT_GROUP

\* `${group}:${limit ?? "all"}`
positionCacheKey(group, limit) ==
  <<group, ":", IF limit = Null THEN "all" ELSE NumberToString(limit)>>

\* `https://celestrak.org/NORAD/elements/gp.php?GROUP=${group}&FORMAT=json`
buildGroupFeedUrl(group) ==
  <<"https://celestrak.org/NORAD/elements/gp.php?GROUP=", group, "&FORMAT=json">>

(***************************************************************************)
(* Normalizer (route.ts:68-81, 178-205)                                    *)
(***************************************************************************)
\* A coercion that forgets the finiteness test on parsed strings
toFiniteNumber_Unchecked(value) ==
  IF IsNumber(value) /\ IsFinite(value)
  THEN value
  ELSE IF IsString(value) THEN StringToNumber(value.s) ELSE Null

toFiniteNumber(value) ==
  IF IsNumber(value) /\ IsFinite(value)
  THEN value
  ELSE IF IsString(value) /\ IsFinite(StringToNumber(value.s))
       THEN StringToNumber(value.s)
       ELSE Null

\* Element classes of a raw record: what the propagation collaborator makes
\* of the record's orbital elements.
ElementClasses ==
  {"good", "east", "malformed", "decayed", "nopos", "nanpos", "infpos", "nanvel"}

\* json2satrec(entry) throws on a malformed element set
json2satrecThrows(entry) == entry.elems = "malformed"
json2satrec(entry) == [elems |-> entry.elems]

\* One raw record of the payload: JSON null, or an object with the
\* identifier field and the orbital elements.
RawObject(id, e) == [t |-> "obj", NORAD_CAT_ID |-> id, elems |-> e]

\* The loop of loadOrbitSet over the payload, from item i on.  Reading a
\* property of null throws a TypeError outside the try block, which ends
\* loadOrbitSet; builds counts the calls of json2satrec.
RECURSIVE normalizeFrom(_, _, _, _)
normalizeFrom(payload, i, records, builds) ==
  IF i > Len(payload)
  THEN [threw |-> FALSE, records |-> records, builds |-> builds]
  ELSE LET entry == payload[i]
       IN IF entry = Null
          THEN [threw |-> TRUE, records |-> records, builds |-> builds]
          ELSE LET noradId == toFiniteNumber(entry.NORAD_CAT_ID)
               IN IF noradId = Null
                  THEN normalizeFrom(payload, i + 1, records, builds)
                  ELSE IF json2satrecThrows(entry)
                       THEN normalizeFrom(payload, i + 1, records, builds + 1)
                       ELSE normalizeFrom(payload, i + 1,
                              Append(records,
                                     [noradId |-> noradId,
                                      satrec |-> json2satrec(entry)]),
                              builds + 1)

normalizePayload(payload) == normalizeFrom(payload, 1, <<>>, 0)

(***************************************************************************)
(* PositionComputer (route.ts:96-110, 221-268)                             *)
(***************************************************************************)
\* A wrap that handles the eastern overshoot only
normalizeLongitude_EastOnly(lon) ==
  IF ~IsFinite(lon)
  THEN lon
  ELSE IF lon.v > 180 * Unit THEN Num(lon.v - 360 * Unit) ELSE lon

normalizeLongitude(lon) ==
  IF ~IsFinite(lon)
  THEN lon
  ELSE IF lon.v > 180 * Unit
       THEN Num(lon.v - 360 * Unit)
       ELSE IF lon.v < -180 * Unit
            THEN Num(lon.v + 360 * Unit)
            ELSE lon

\* Number(x.toFixed(digits)): rounds half away from zero to the given
\* number of decimals; NaN and the infinities pass through.
Pow10(n) == IF n = 0 THEN 1 ELSE IF n = 1 THEN 10 ELSE IF n = 2 THEN 100 ELSE Unit
ToFixed(x, digits) ==
  IF ~IsFinite(x)
  THEN x
  ELSE LET step == IF digits >= 3 THEN 1 ELSE Pow10(3 - digits)
           mag == IF x.v < 0 THEN -x.v ELSE x.v
           rounded == ((2 * mag + step) \div (2 * step)) * step
       IN Num(IF x.v < 0 THEN -rounded ELSE rounded)

\* Integer square root by bisection
RECURSIVE ISqrt(_, _, _)
ISqrt(n, lo, hi) ==
  IF lo >= hi
  THEN lo
  ELSE LET mid == (lo + hi + 1) \div 2
       IN IF mid * mid <= n THEN ISqrt(n, mid, hi) ELSE ISqrt(n, lo, mid - 1)

\* Math.sqrt(x*x + y*y + z*z) over the velocity components
VectorNorm(vel) ==
  IF \E c \in {vel.x, vel.y, vel.z} : c.t = "nan"
  THEN NaN
  ELSE IF \E c \in {vel.x, vel.y, vel.z} : ~IsFinite(c)
       THEN PosInf
       ELSE Num(ISqrt(vel.x.v * vel.x.v + vel.y.v * vel.y.v + vel.z.v * vel.z.v,
                      0, 20 * Unit))

Vec(x, y, z) == [x |-> x, y |-> y, z |-> z]
Geo(lat, lon, h) == [latitude |-> lat, longitude |-> lon, height |-> h]

\* Two positions in orbit (km, inertial frame) and two velocities (km/s)
PositionA == Vec(Num(-6670 * Unit), Num(1180 * Unit), Num(1235 * Unit))
PositionB == Vec(Num(6510 * Unit), Num(110 * Unit), Num(-2370 * Unit))
VelocityA == Vec(Num(3000), Num(4000), Num(0))
VelocityB == Vec(Num(0), Num(6000), Num(4500))

\* propagate(satrec, nowDate): null on failure, otherwise a state whose
\* position or velocity may be missing or may have non-finite components.
propagate(satrec, nowDate) ==
  CASE satrec.elems = "decayed" -> Null
    [] satrec.elems = "nopos" -> [position |-> Undefined, velocity |-> Undefined]
    [] satrec.elems = "nanpos" ->
         [position |-> Vec(NaN, NaN, NaN), velocity |-> VelocityA]
    [] satrec.elems = "infpos" ->
         [position |-> Vec(PosInf, Num(1180 * Unit), Num(1235 * Unit)),
          velocity |-> VelocityA]
    [] satrec.elems = "nanvel" ->
         [position |-> PositionA, velocity |-> Vec(NaN, NaN, NaN)]
    [] satrec.elems = "east" ->
         [position |-> PositionB, velocity |-> VelocityB]
    [] OTHER ->
         [position |-> PositionA, velocity |-> VelocityA]

\* gstime(nowDate): the sidereal reference of the computation
gstime(nowDate) == nowDate

\* radiansToDegrees over eciToGeodetic(state.position, gmst), in degrees and
\* km.  A NaN component makes every output NaN; an infinite x or y leaves
\* the two angles finite (atan2 of an infinite argument) and makes the
\* height infinite.  The longitude may come back outside [-180, 180].
eciToGeodetic(position, gmst) ==
  IF \E c \in {position.x, position.y, position.z} : c.t = "nan"
  THEN Geo(NaN, NaN, NaN)
  ELSE IF \E c \in {position.x, position.y} : ~IsFinite(c)
       THEN Geo(Num(0), Num(45 * Unit), PosInf)
       ELSE IF position = PositionA
            THEN Geo(Num(10500), Num(190 * Unit), Num(400126))
            ELSE Geo(Num(-20 * Unit), Num(179 * Unit), Num(550004))

\* A count that ignores the limit
requestedCount_IgnoreLimit(records, limit) == Len(records)

\* Math.min(records.length, limit) for an integer-valued limit
requestedCount(records, limit) ==
  IF limit = Null
  THEN Len(records)
  ELSE IF Len(records) < limit.v \div Unit THEN Len(records) ELSE limit.v \div Unit

\* One iteration of the loop of computePositions: the entity pushed for a
\* record, or <<>> when the record is skipped.
computeOne(record, nowDate, gmst) ==
  LET state == propagate(record.satrec, nowDate)
  IN IF state = Null
     THEN <<>>
     ELSE IF state.position = Undefined \/ state.velocity = Undefined
     THEN <<>>
     ELSE LET geodetic == eciToGeodetic(state.position, gmst)
              lat == geodetic.latitude
              lon == normalizeLongitude(geodetic.longitude)
          IN IF ~IsFinite(lat) \/ ~IsFinite(lon)
             THEN <<>>
             ELSE << [altitudeKm |-> ToFixed(geodetic.height, 2),
                      lat |-> ToFixed(lat, 5),
                      lon |-> ToFixed(lon, 5),
                      noradId |-> record.noradId,
                      speedKps |-> ToFixed(VectorNorm(state.velocity), 3)] >>

RECURSIVE computeFrom(_, _, _, _, _)
computeFrom(records, nowDate, gmst, index, count) ==
  IF index > count
  THEN <<>>
  ELSE computeOne(records[index], nowDate, gmst)
         \o computeFrom(records, nowDate, gmst, index + 1, count)

computePositions(records, nowDate, limit) ==
  computeFrom(records, nowDate, gstime(nowDate), 1,
              requestedCount(records, limit))

(***************************************************************************)
(* Cache tables (route.ts:48-63): Map objects as functions with a growing  *)
(* domain.                                                                 *)
(***************************************************************************)
EmptyMap == [k \in {} |-> Null]
MapHas(m, k) == k \in DOMAIN m
\* An update in place: the entry keeps the expiry of the one it replaces
MapSet_KeepExpiry(m, k, e) ==
  [x \in (DOMAIN m) \cup {k} |->
     IF x = k
     THEN IF k \in DOMAIN m THEN [e EXCEPT !.expiresAt = m[k].expiresAt] ELSE e
     ELSE m[x]]

\* Map.prototype.set
MapSet(m, k, e) == [x \in (DOMAIN m) \cup {k} |-> IF x = k THEN e ELSE m[x]]

\* A lookup that forgets the expiry
orbitHit_IgnoreExpiry(cache, group, now) == MapHas(cache, group)

\* cached && cached.expiresAt > now (route.ts:167)
orbitHit(cache, group, now) ==
  MapHas(cache, group) /\ cache[group].expiresAt > now

\* A lookup that forgets the expiry
positionHit_IgnoreExpiry(cache, key, now) == MapHas(cache, key)

\* cachedPositions && cachedPositions.expiresAt > now (route.ts:296)
positionHit(cache, key, now) ==
  MapHas(cache, key) /\ cache[key].expiresAt > now

\* The element-set snapshot loadOrbitSet builds (route.ts:207-211)
orbitValue(fetchedAt, records, source) ==
  [fetchedAt |-> fetchedAt, records |-> records, source |-> source]

\* The entry loadOrbitSet stores (route.ts:213-216)
orbitEntry(now, value) ==
  [expiresAt |-> now + ORBIT_CACHE_TTL_MS, value |-> value]

\* A snapshot whose count is the number of candidates
positionValue_CountCandidates(computedAt, group, orbitSet, satellites) ==
  [computedAt |-> computedAt,
   count |-> Len(orbitSet.records),
   fetchedAt |-> orbitSet.fetchedAt,
   group |-> group,
   satellites |-> satellites,
   source |-> orbitSet.source,
   totalOrbits |-> Len(orbitSet.records)]

\* The snapshot GET builds (route.ts:308-316)
positionValue(computedAt, group, orbitSet, satellites) ==
  [computedAt |-> computedAt,
   count |-> Len(satellites),
   fetchedAt |-> orbitSet.fetchedAt,
   group |-> group,
   satellites |-> satellites,
   source |-> orbitSet.source,
   totalOrbits |-> Len(orbitSet.records)]

\* The entry GET stores (route.ts:318-321)
positionEntry(now, value) ==
  [expiresAt |-> now + POSITION_CACHE_TTL_MS, value |-> value]

\* NextResponse.json(value) and the error envelope (route.ts:297, 323, 334)
okResponse(value) == [status |-> 200, body |-> value]
errorResponse(cause) ==
  [status |-> 502,
   body |-> [error |-> <<"Unable to fetch live satellite positions: ", cause>>]]

(***************************************************************************)
(* Inputs of the model                                                     *)
(***************************************************************************)
GroupParams == {Null, Str("STATIONS"), Str("bogus")}
LimitParams == {Null, Str("0.5"), Str("1.5")}

E1 == RawObject(Num(1 * Unit), "good")
E2 == RawObject(Str("2"), "east")
ENaN == RawObject(Str("NaN"), "good")
EMalformed == RawObject(Num(3 * Unit), "malformed")
EDecayed == RawObject(Num(5 * Unit), "decayed")
ENanVel == RawObject(Num(7 * Unit), "nanvel")

\* Bodies the upstream may send: a JSON array of raw records, a JSON value
\* that is not iterable, or text that is not JSON.
ArrayBody(items) == [t |-> "array", items |-> items]
ObjectBody == [t |-> "object"]
BadBody == [t |-> "invalid"]
Bodies ==
  {ArrayBody(<<E1, E2>>), ArrayBody(<<ENaN, EDecayed, E1>>),
   ArrayBody(<<E1, Null>>), BadBody}

\* The clock advances by half a position TTL or by a whole element-set TTL
TickSteps == {POSITION_CACHE_TTL_MS \div 2, ORBIT_CACHE_TTL_MS}

Requests == 1..NReq

(***************************************************************************)
(* State                                                                   *)
(***************************************************************************)
VARIABLES
  clock,          \* Date.now()
  orbitCache,     \* route.ts:48
  positionCache,  \* route.ts:49
  rq,             \* the invocations of GET in progress: position and locals
  last,           \* the most recent response, with what its request did
  computeCount,   \* number of calls of computePositions so far
  orbitSets,      \* every element-set snapshot loadOrbitSet has built
  arrivals,       \* number of requests received so far
  ticks,          \* number of clock advances so far
  cin,            \* the cold request: its parameters and the upstream's body
  cout,           \* the cold request: how far it is and what it has produced
  lin,            \* the longitude computation: its arguments
  lout,           \* the longitude computation: how far it is and its results
  perfNow,            \* performance.now(), and the timestamp of a frame
  elapses,            \* number of advances of perfNow so far
  mounted,            \* the component is mounted
  groupState,         \* satellite-globe.tsx:162, the state named group
  renderedSatellites, \* satellite-globe.tsx:163
  status,             \* satellite-globe.tsx:164
  lastComputedAt,     \* satellite-globe.tsx:165
  totalOrbits,        \* satellite-globe.tsx:166
  transitionRef,      \* satellite-globe.tsx:158
  animationFrameRef,  \* satellite-globe.tsx:159, 0 standing for null
  renderedMapRef,     \* satellite-globe.tsx:160
  frames,             \* the frame callbacks requested and neither run nor cancelled
  session,            \* number of runs of the refresh effect so far
  sess,               \* per run of the effect: its closure and its requests
  fetches,            \* number of refresh requests started so far
  snapshots,          \* number of snapshots handed to startTransition so far
  latest,             \* the satellites of the most recent of them
  frameLog            \* the most recent frame: its timestamp and its progress

coldVars == <<cin, cout>>
lonVars == <<lin, lout>>
engineVars == <<renderedSatellites, transitionRef, animationFrameRef,
                renderedMapRef, frames, snapshots, latest, frameLog>>
feedVars == <<status, lastComputedAt, totalOrbits>>
sessionVars == <<mounted, groupState, session, sess, fetches>>
clientVars == <<perfNow, elapses, engineVars, feedVars, sessionVars>>
vars == <<clock, orbitCache, positionCache, rq, last, computeCount, orbitSets,
          arrivals, ticks, cin, cout, lin, lout, clientVars>>

\* The component as constructed (satellite-globe.tsx:158-166), before its
\* effects have run
NoSession ==
  [isActive |-> FALSE, isRequestInFlight |-> FALSE, intervalId |-> FALSE,
   group |-> DEFAULT_GROUP, awaitingHead |-> 0, awaitingBody |-> 0,
   started |-> 0]
Sessions == 1..MaxSessions
NoFrame == 0
ClientConstructed ==
  /\ perfNow = 0
  /\ elapses = 0
  /\ mounted = TRUE
  /\ groupState = DEFAULT_GROUP
  /\ renderedSatellites = <<>>
  /\ status = "live"
  /\ lastComputedAt = Null
  /\ totalOrbits = 0
  /\ transitionRef = Null
  /\ animationFrameRef = NoFrame
  /\ renderedMapRef = <<>>
  /\ frames = {}
  /\ session = 0
  /\ sess = [s \in Sessions |-> NoSession]
  /\ fetches = 0
  /\ snapshots = 0
  /\ latest = <<>>
  /\ frameLog = [timestamp |-> 0, progress |-> 0]

NoLonInput == [kind |-> "none", lon |-> 0, from |-> 0, to |-> 0, eased |-> 0]
LonStart ==
  [stage |-> "start", once |-> Null, twice |-> Null, delta |-> 0, lng |-> 0]

NoColdInput == [groupParam |-> Null, limitParam |-> Null, payload |-> <<>>]
ColdStart ==
  [stage |-> "start", group |-> DEFAULT_GROUP, limit |-> Null, key |-> <<>>,
   source |-> <<>>, threw |-> FALSE, records |-> <<>>, builds |-> 0,
   status |-> 0, body |-> Null]

IdleRequest ==
  [pc |-> "idle", id |-> 0, groupParam |-> Null, limitParam |-> Null,
   group |-> DEFAULT_GROUP, limit |-> Null, now |-> 0,
   orbitSet |-> Null, orbHit |-> FALSE, fetches |-> 0, wroteOrbit |-> FALSE]

\* What is recorded of a finished request: its response, its key, and which
\* of the steps of GET it took.
Finished(q, resp, posHit, computed) ==
  [id |-> q.id, status |-> resp.status, body |-> resp.body,
   groupParam |-> q.groupParam, limitParam |-> q.limitParam,
   group |-> q.group, limit |-> q.limit, now |-> q.now,
   posHit |-> posHit, orbHit |-> q.orbHit, fetches |-> q.fetches,
   computed |-> computed, wroteOrbit |-> q.wroteOrbit,
   wrotePosition |-> computed]

NoneFinished ==
  Finished(IdleRequest, [status |-> 0, body |-> Null], FALSE, FALSE)

Init ==
  /\ clock = 0
  /\ orbitCache = EmptyMap
  /\ positionCache = EmptyMap
  /\ rq = [r \in Requests |-> IdleRequest]
  /\ last = NoneFinished
  /\ computeCount = 0
  /\ orbitSets = {}
  /\ arrivals = 0
  /\ ticks = 0
  /\ cin = NoColdInput
  /\ cout = ColdStart
  /\ lin = NoLonInput
  /\ lout = LonStart
  /\ ClientConstructed

(***************************************************************************)
(* Time passes between the steps of the handlers.                          *)
(***************************************************************************)
Tick(d) ==
  /\ ticks < MaxTicks
  /\ clock' = clock + d
  /\ ticks' = ticks + 1
  /\ UNCHANGED <<orbitCache, positionCache, rq, last, computeCount, orbitSets,
                 arrivals, coldVars,
                 lonVars, clientVars>>

(***************************************************************************)
(* GET up to its first suspension (route.ts:283-304, 163-172): parameter   *)
(* validation, the position-table lookup, and on a miss the element-set    *)
(* lookup of loadOrbitSet, which either returns the stored snapshot or     *)
(* starts the upstream fetch.  A request takes the first free slot.        *)
(***************************************************************************)
Arrive(r, groupParam, limitParam) ==
  /\ rq[r].pc = "idle"
  /\ \A q \in Requests : q < r => rq[q].pc # "idle"
  /\ arrivals < MaxArrivals
  /\ arrivals' = arrivals + 1
  /\ LET group == resolveGroup(groupParam)
         limit == parseLimit(limitParam)
         key == positionCacheKey(group, limit)
         now == clock
         base == [IdleRequest EXCEPT !.id = arrivals + 1,
                                     !.groupParam = groupParam,
                                     !.limitParam = limitParam,
                                     !.group = group, !.limit = limit,
                                     !.now = now]
     IN IF positionHit(positionCache, key, now)
        THEN /\ last' = Finished(base, okResponse(positionCache[key].value),
                                 TRUE, FALSE)
             /\ rq' = rq
        ELSE /\ last' = last
             /\ rq' = [rq EXCEPT ![r] =
                  IF orbitHit(orbitCache, group, now)
                  THEN [base EXCEPT !.pc = "loaded", !.orbHit = TRUE,
                                    !.orbitSet = orbitCache[group].value]
                  ELSE [base EXCEPT !.pc = "fetch", !.fetches = 1]]
  /\ UNCHANGED <<clock, orbitCache, positionCache, computeCount, orbitSets, ticks,
                 coldVars,
                 lonVars, clientVars>>

\* A catch block that falls back to whatever entry the position table holds
Fail_ServeStale(r, cause) ==
  /\ last' = Finished(rq[r],
        IF MapHas(positionCache, positionCacheKey(rq[r].group, rq[r].limit))
        THEN okResponse(
               positionCache[positionCacheKey(rq[r].group, rq[r].limit)].value)
        ELSE errorResponse(cause),
        FALSE, FALSE)
  /\ rq' = [rq EXCEPT ![r] = IdleRequest]

\* The catch block of GET (route.ts:328-338)
Fail(r, cause) ==
  /\ last' = Finished(rq[r], errorResponse(cause), FALSE, FALSE)
  /\ rq' = [rq EXCEPT ![r] = IdleRequest]

(***************************************************************************)
(* fetchWithTimeout (route.ts:148-161): the abort timer fires, or the      *)
(* fetch rejects, or the response head arrives and the timer is cleared.   *)
(***************************************************************************)
FetchTimeout(r) ==
  /\ rq[r].pc = "fetch"
  /\ clock >= rq[r].now + REQUEST_TIMEOUT_MS
  /\ Fail(r, "This operation was aborted")
  /\ UNCHANGED <<clock, orbitCache, positionCache, computeCount, orbitSets,
                 arrivals, ticks, coldVars,
                 lonVars, clientVars>>

FetchReject(r) ==
  /\ rq[r].pc = "fetch"
  /\ clock < rq[r].now + REQUEST_TIMEOUT_MS
  /\ Fail(r, "fetch failed")
  /\ UNCHANGED <<clock, orbitCache, positionCache, computeCount, orbitSets,
                 arrivals, ticks, coldVars,
                 lonVars, clientVars>>

\* The response head arrives (route.ts:172-176): !response.ok throws
FetchResponse(r, ok) ==
  /\ rq[r].pc = "fetch"
  /\ clock < rq[r].now + REQUEST_TIMEOUT_MS
  /\ IF ok
     THEN rq' = [rq EXCEPT ![r].pc = "body"] /\ last' = last
     ELSE Fail(r, "CelesTrak orbit request failed (503)")
  /\ UNCHANGED <<clock, orbitCache, positionCache, computeCount, orbitSets,
                 arrivals, ticks, coldVars,
                 lonVars, clientVars>>

(***************************************************************************)
(* The rest of loadOrbitSet (route.ts:178-218): the body is read and       *)
(* parsed, the records are normalized, the snapshot is stored.             *)
(***************************************************************************)
BodyArrives(r, body) ==
  /\ rq[r].pc = "body"
  /\ IF body.t # "array"
     THEN /\ Fail(r, IF body.t = "invalid"
                     THEN "Unexpected token in JSON"
                     ELSE "payload is not iterable")
          /\ UNCHANGED <<orbitCache, orbitSets>>
     ELSE LET res == normalizePayload(body.items)
              value == orbitValue(clock, res.records,
                                  buildGroupFeedUrl(rq[r].group))
          IN IF res.threw
             THEN /\ Fail(r, "Cannot read properties of null")
                  /\ UNCHANGED <<orbitCache, orbitSets>>
             ELSE /\ orbitCache' = MapSet(orbitCache, rq[r].group,
                                          orbitEntry(rq[r].now, value))
                  /\ orbitSets' = orbitSets \cup {value}
                  /\ rq' = [rq EXCEPT ![r].pc = "loaded",
                                      ![r].orbitSet = value,
                                      ![r].wroteOrbit = TRUE]
                  /\ last' = last
  /\ UNCHANGED <<clock, positionCache, computeCount, arrivals, ticks, coldVars,
                 lonVars, clientVars>>

(***************************************************************************)
(* GET after loadOrbitSet has returned (route.ts:305-327)                  *)
(***************************************************************************)
Compute(r) ==
  /\ rq[r].pc = "loaded"
  /\ LET computedAt == clock
         satellites == computePositions(rq[r].orbitSet.records, computedAt,
                                        rq[r].limit)
         value == positionValue(computedAt, rq[r].group, rq[r].orbitSet,
                                satellites)
     IN /\ positionCache' = MapSet(positionCache,
                                   positionCacheKey(rq[r].group, rq[r].limit),
                                   positionEntry(rq[r].now, value))
        /\ last' = Finished(rq[r], okResponse(value), FALSE, TRUE)
  /\ rq' = [rq EXCEPT ![r] = IdleRequest]
  /\ computeCount' = computeCount + 1
  /\ UNCHANGED <<clock, orbitCache, orbitSets, arrivals, ticks, coldVars,
                 lonVars, clientVars>>

Next ==
  \/ \E d \in TickSteps : Tick(d)
  \/ \E r \in Requests, g \in GroupParams, l \in LimitParams : Arrive(r, g, l)
  \/ \E r \in Requests : FetchTimeout(r)
  \/ \E r \in Requests : FetchReject(r)
  \/ \E r \in Requests, ok \in BOOLEAN : FetchResponse(r, ok)
  \/ \E r \in Requests, b \in Bodies : BodyArrives(r, b)
  \/ \E r \in Requests : Compute(r)

Spec == Init /\ [][Next]_vars

(***************************************************************************)
(* The cold request: one GET on empty cache tables, for every combination  *)
(* of request parameters and every body of at most MaxPayloadLen raw       *)
(* records the upstream may answer with.  Its steps are the steps of GET   *)
(* above; the clock stands still.                                          *)
(***************************************************************************)
serverVars == <<clock, orbitCache, positionCache, rq, last, computeCount,
                orbitSets, arrivals, ticks>>

EMissing == RawObject(Undefined, "good")
EInfPos == RawObject(Num(9 * Unit), "infpos")
RawEntries ==
  {Null, E1, E2, ENaN, EMissing, EMalformed, EDecayed, ENanVel, EInfPos}

RECURSIVE SeqsUpTo(_, _)
SeqsUpTo(S, n) ==
  IF n = 0
  THEN {<<>>}
  ELSE LET shorter == SeqsUpTo(S, n - 1)
       IN shorter \cup {Append(q, x) : q \in shorter, x \in S}

AllGroupParams ==
  {Null, Str(""), Str("active"), Str("STATIONS"), Str("Starlink"), Str("bogus")}
AllLimitParams ==
  {Null, Str(""), Str(" "), Str("abc"), Str("0"), Str("-1"), Str("0.5"),
   Str("0.999"), Str("1"), Str("1.5"), Str("2"), Str("Infinity")}
ColdParams ==
  {<<g, Null>> : g \in AllGroupParams} \cup {<<Null, l>> : l \in AllLimitParams}

ColdInit ==
  /\ clock = 0
  /\ orbitCache = EmptyMap
  /\ positionCache = EmptyMap
  /\ rq = [r \in Requests |-> IdleRequest]
  /\ last = NoneFinished
  /\ computeCount = 0
  /\ orbitSets = {}
  /\ arrivals = 0
  /\ ticks = 0
  /\ cin \in {[groupParam |-> gl[1], limitParam |-> gl[2], payload |-> p] :
                gl \in ColdParams, p \in SeqsUpTo(RawEntries, MaxPayloadLen)}
  /\ cout = ColdStart
  /\ lin = NoLonInput
  /\ lout = LonStart
  /\ ClientConstructed

\* route.ts:285-292, 171
ColdValidate ==
  /\ cout.stage = "start"
  /\ LET group == resolveGroup(cin.groupParam)
         limit == parseLimit(cin.limitParam)
     IN cout' = [cout EXCEPT !.stage = "validated", !.group = group,
                             !.limit = limit,
                             !.key = positionCacheKey(group, limit),
                             !.source = buildGroupFeedUrl(group)]
  /\ UNCHANGED <<cin, serverVars, lonVars, clientVars>>

\* route.ts:178-205, and the catch block of GET when the loop throws
ColdNormalize ==
  /\ cout.stage = "validated"
  /\ LET res == normalizePayload(cin.payload)
     IN IF res.threw
        THEN cout' = [cout EXCEPT
               !.stage = "done", !.threw = TRUE, !.builds = res.builds,
               !.status = errorResponse("Cannot read properties of null").status,
               !.body = errorResponse("Cannot read properties of null").body]
        ELSE cout' = [cout EXCEPT !.stage = "normalized",
                                  !.records = res.records,
                                  !.builds = res.builds]
  /\ UNCHANGED <<cin, serverVars, lonVars, clientVars>>

\* route.ts:207-211, 305-327
ColdCompute ==
  /\ cout.stage = "normalized"
  /\ LET orbitSet == orbitValue(clock, cout.records, cout.source)
         satellites == computePositions(orbitSet.records, clock, cout.limit)
         value == positionValue(clock, cout.group, orbitSet, satellites)
     IN cout' = [cout EXCEPT !.stage = "done",
                             !.status = okResponse(value).status,
                             !.body = okResponse(value).body]
  /\ UNCHANGED <<cin, serverVars, lonVars, clientVars>>

ColdNext == ColdValidate \/ ColdNormalize \/ ColdCompute

ColdSpec == ColdInit /\ [][ColdNext]_vars

(***************************************************************************)
(* Properties of the request handler under Spec                            *)
(***************************************************************************)
KeyOf(q) == positionCacheKey(q.group, q.limit)

\* The step is the arrival of a request
Arrived == arrivals' = arrivals + 1
\* The request that arrives in this step: answered at once, or in a slot
Newcomer ==
  IF last'.id = arrivals'
  THEN last'
  ELSE rq'[CHOOSE r \in Requests : rq'[r].id = arrivals']
\* The step answers a request
Answered == last'.id # last.id
\* The step ends request r without a snapshot having been computed for it
Abandoned(r) ==
  /\ rq[r].pc \in {"fetch", "body", "loaded"}
  /\ rq'[r].id # rq[r].id
  /\ computeCount' = computeCount

IsErrorEnvelope(body) == DOMAIN body = {"error"}
IsSnapshot(body) == "satellites" \in DOMAIN body

\* C1: a miss-path request that ends because the fetch timed out, the
\* upstream answered with a non-success status, or a step threw, is answered
\* with an error envelope and a non-success status, never with a snapshot
\* (not even a stale one), and has written to neither cache table.
C1_FailureIsErrorEnvelope ==
  [][\A r \in Requests :
       Abandoned(r) =>
         /\ last'.id = rq[r].id
         /\ last'.status \notin 200..299
         /\ IsErrorEnvelope(last'.body)
         /\ orbitCache' = orbitCache
         /\ positionCache' = positionCache
         /\ ~last'.wroteOrbit /\ ~last'.wrotePosition]_vars

\* C1 witness: a request failed while expired entries for its key and its
\* group were still in the tables
C1_Witness ==
  /\ last.status = 502
  /\ MapHas(positionCache, KeyOf(last))
  /\ positionCache[KeyOf(last)].expiresAt <= last.now
  /\ MapHas(orbitCache, last.group)
  /\ orbitCache[last.group].expiresAt <= last.now

\* The position table holds an unexpired entry for the key at this instant
HoldsFresh(key) ==
  /\ key \in DOMAIN positionCache
  /\ positionCache[key].expiresAt > clock

\* C2 as stated: a request that arrives while the table holds an unexpired
\* entry for its key is answered at once with exactly the stored snapshot,
\* with no element-set load and no computation; every request that arrives
\* when the entry is absent or expired recomputes and replaces the entry.
C2_HitServesMissRecomputes ==
  [][/\ Arrived /\ HoldsFresh(KeyOf(Newcomer)) =>
          /\ last'.id = arrivals'
          /\ last'.status = 200
          /\ last'.body = positionCache[KeyOf(Newcomer)].value
          /\ last'.fetches = 0 /\ ~last'.orbHit
          /\ computeCount' = computeCount
          /\ orbitCache' = orbitCache /\ positionCache' = positionCache
     /\ Arrived /\ ~HoldsFresh(KeyOf(Newcomer)) => last' = last
     /\ Answered /\ ~last'.posHit =>
          /\ computeCount' = computeCount + 1
          /\ KeyOf(last') \in DOMAIN positionCache'
          /\ positionCache'[KeyOf(last')].value = last'.body
          /\ IsSnapshot(last'.body)]_vars

\* C2 amended: as above for the hit; a request that arrives when the entry
\* is absent or expired is not answered from the table, and when its
\* element-set load succeeds it recomputes and replaces the entry, while a
\* failed load answers with an error and leaves the entry as it was.
C2_HitServesMissRecomputesUnlessLoadFails ==
  [][/\ Arrived /\ HoldsFresh(KeyOf(Newcomer)) =>
          /\ last'.id = arrivals'
          /\ last'.status = 200
          /\ last'.body = positionCache[KeyOf(Newcomer)].value
          /\ last'.fetches = 0 /\ ~last'.orbHit
          /\ computeCount' = computeCount
          /\ orbitCache' = orbitCache /\ positionCache' = positionCache
     /\ Arrived /\ ~HoldsFresh(KeyOf(Newcomer)) => last' = last
     /\ Answered /\ ~last'.posHit =>
          IF last'.status = 200
          THEN /\ computeCount' = computeCount + 1
               /\ KeyOf(last') \in DOMAIN positionCache'
               /\ positionCache'[KeyOf(last')].value = last'.body
               /\ IsSnapshot(last'.body)
          ELSE /\ computeCount' = computeCount
               /\ positionCache' = positionCache
               /\ IsErrorEnvelope(last'.body)]_vars

\* C2 witness: a request was answered from the table, some time after the
\* snapshot it received had been computed for an earlier request
C2_Witness ==
  /\ last.posHit /\ last.status = 200
  /\ last.id = 2
  /\ last.now > last.body.computedAt
  /\ last.body.count > 0
  /\ computeCount = 1

\* The snapshot agrees with itself and with one element-set snapshot
ConsistentSnapshot(v) ==
  /\ v.count = Len(v.satellites)
  /\ v.count <= v.totalOrbits
  /\ \E o \in orbitSets :
       /\ v.totalOrbits = Len(o.records)
       /\ v.fetchedAt = o.fetchedAt
       /\ v.source = o.source

\* C3: every snapshot the endpoint returns, freshly computed or served from
\* the position table, has count equal to the length of its satellites
\* list, count <= totalOrbits, and totalOrbits, fetchedAt and source taken
\* from one and the same element-set snapshot.
C3_SnapshotConsistent ==
  /\ last.status = 200 => ConsistentSnapshot(last.body)
  /\ \A k \in DOMAIN positionCache : ConsistentSnapshot(positionCache[k].value)

\* C3 witness: a snapshot served from the table in which an entity was
\* dropped by the position computer
C3_Witness ==
  /\ last.status = 200 /\ last.posHit
  /\ 0 < last.body.count /\ last.body.count < last.body.totalOrbits
  /\ Cardinality(orbitSets) >= 1

\* C4: loadOrbitSet performs no fetch and returns the stored snapshot when
\* the element-set table holds an unexpired entry for the group; otherwise
\* it starts exactly one fetch, and no step of a request starts another
\* one, so that a request causes at most one upstream fetch.
C4_AtMostOneFetch ==
  [][/\ Arrived /\ ~HoldsFresh(KeyOf(Newcomer)) =>
          IF /\ Newcomer.group \in DOMAIN orbitCache
             /\ orbitCache[Newcomer.group].expiresAt > clock
          THEN /\ Newcomer.fetches = 0
               /\ Newcomer.pc = "loaded"
               /\ Newcomer.orbitSet = orbitCache[Newcomer.group].value
          ELSE /\ Newcomer.fetches = 1
               /\ Newcomer.pc = "fetch"
     /\ \A r \in Requests :
          rq'[r].id = rq[r].id => rq'[r].fetches = rq[r].fetches
     /\ \A r \in Requests :
          Answered /\ last'.id = rq[r].id => last'.fetches = rq[r].fetches
     /\ last'.fetches <= 1]_vars

\* C4 witness: a request whose position entry had expired was answered
\* from the stored element-set snapshot, without a fetch
C4_Witness ==
  /\ last.status = 200 /\ last.computed
  /\ last.orbHit /\ last.fetches = 0
  /\ last.body.fetchedAt < last.now

(***************************************************************************)
(* Properties of the normalizer, the position computer and the parameter   *)
(* validation under ColdSpec                                               *)
(***************************************************************************)
Indices(q) == 1..Len(q)
Identifiers(q) == [i \in Indices(q) |-> q[i].noradId]

\* The identifier of a raw record is present and coerces to a finite number
HasFiniteIdentifier(entry) ==
  /\ entry # Null
  /\ \/ entry.NORAD_CAT_ID.t = "num"
     \/ /\ entry.NORAD_CAT_ID.t = "str"
        /\ StringToNumber(entry.NORAD_CAT_ID.s).t = "num"

\* The raw record is well formed and the collaborator can build it
IsValidRecord(entry) ==
  HasFiniteIdentifier(entry) /\ entry.elems # "malformed"

\* The number the identifier of a valid raw record stands for
IdentifierOf(entry) ==
  IF entry.NORAD_CAT_ID.t = "num"
  THEN entry.NORAD_CAT_ID
  ELSE StringToNumber(entry.NORAD_CAT_ID.s)

ValidIdentifiers(payload) ==
  LET valid == SelectSeq(payload, IsValidRecord)
  IN [i \in Indices(valid) |-> IdentifierOf(valid[i])]

\* C5: for every payload, a malformed record or one whose propagation-ready
\* construction fails is discarded alone: the request does not fail, and
\* the stored snapshot holds exactly the valid records, in payload order.
C5_BadRecordDiscardedAlone ==
  cout.stage \in {"normalized", "done"} =>
    /\ ~cout.threw
    /\ cout.status # 502
    /\ Identifiers(cout.records) = ValidIdentifiers(cin.payload)

\* C6: a raw record whose identifier is missing or does not coerce to a
\* finite number is discarded before anything else is extracted from it (the
\* collaborator is never asked to build it), so the snapshot never holds
\* more entities than the payload had records and every stored entity has a
\* finite identifier.
C6_NonFiniteIdentifierDiscarded ==
  cout.stage \in {"normalized", "done"} =>
    LET finite == {i \in Indices(cin.payload) :
                     HasFiniteIdentifier(cin.payload[i])}
    IN /\ Len(cout.records) <= Cardinality(finite)
       /\ cout.builds <= Cardinality(finite)
       /\ Len(cout.records) <= Len(cin.payload)
       /\ \A i \in Indices(cout.records) : cout.records[i].noradId.t = "num"
       /\ ~cout.threw => cout.builds = Cardinality(finite)

\* C6 witness: a payload with a "NaN" identifier, a missing identifier and
\* valid records went through the normalizer
C6_Witness ==
  /\ cout.stage = "done" /\ cout.status = 200
  /\ \E i \in Indices(cin.payload) : cin.payload[i] = ENaN
  /\ \E i \in Indices(cin.payload) : cin.payload[i] = EMissing
  /\ Len(cout.records) = 1
  /\ cout.body.totalOrbits = 1

IsFiniteEntity(e) ==
  /\ e.lat.t = "num" /\ e.lon.t = "num"
  /\ e.altitudeKm.t = "num" /\ e.speedKps.t = "num"

\* C7: every entity of every served snapshot has finite latitude,
\* longitude, altitude and speed.
C7_ServedEntitiesFinite ==
  cout.stage = "done" /\ cout.status = 200 =>
    \A i \in Indices(cout.body.satellites) :
      IsFiniteEntity(cout.body.satellites[i])

\* C8: the effective limit is null when the parameter is absent,
\* non-numeric or non-positive, and otherwise a positive integer; it is
\* never zero, negative or fractional.
C8_LimitNullOrPositiveInteger ==
  cout.stage # "start" =>
    /\ cin.limitParam \in {Null, Str(""), Str("abc"), Str("0"), Str("-1")} =>
         cout.limit = Null
    /\ \/ cout.limit = Null
       \/ /\ cout.limit.t = "num"
          /\ cout.limit.v >= Unit
          /\ cout.limit.v % Unit = 0

RECURSIVE IsSubsequence(_, _)
IsSubsequence(a, b) ==
  IF Len(a) = 0
  THEN TRUE
  ELSE IF Len(b) = 0
       THEN FALSE
       ELSE IF a[1] = b[1]
            THEN IsSubsequence(Tail(a), Tail(b))
            ELSE IsSubsequence(a, Tail(b))

FirstRecords(records, n) ==
  SubSeq(records, 1, IF n < Len(records) THEN n ELSE Len(records))

\* C9: with a non-null limit the computer returns at most limit entities,
\* each from one of the first limit records of the snapshot and in their
\* order; with a null limit it considers every record.
C9_LimitTakesFirstRecords ==
  cout.stage = "done" /\ cout.status = 200 =>
    LET sats == cout.body.satellites
    IN IF cout.limit = Null
       THEN /\ IsSubsequence(Identifiers(sats), Identifiers(cout.records))
            /\ Len(sats) =
                 Cardinality({i \in Indices(cout.records) :
                    computeOne(cout.records[i], 0, gstime(0)) # <<>>})
       ELSE /\ Len(sats) <= cout.limit.v \div Unit
            /\ IsSubsequence(Identifiers(sats),
                 Identifiers(FirstRecords(cout.records, cout.limit.v \div Unit)))

\* C9 witness: a limit of 2 cut a snapshot of three computable records
C9_Witness ==
  /\ cout.stage = "done" /\ cout.status = 200
  /\ cout.limit = Num(2 * Unit)
  /\ Len(cout.records) = 3
  /\ Len(cout.body.satellites) = 2
  /\ \A i \in Indices(cout.records) :
       computeOne(cout.records[i], 0, gstime(0)) # <<>>

\* The group a request parameter asks for, when it names one
AskedGroup(groupParam) ==
  CASE groupParam = Str("active") -> "active"
    [] groupParam = Str("STATIONS") -> "stations"
    [] groupParam = Str("Starlink") -> "starlink"
    [] OTHER -> "none"

\* C10: the group used for the cache key, the upstream URL and the response
\* is a member of the allow-list: the requested group when it is in the
\* list, otherwise "active"; an unknown or missing group produces no error.
C10_GroupFromAllowList ==
  cout.stage # "start" =>
    /\ cout.group \in {"active", "stations", "starlink"}
    /\ cout.group = IF AskedGroup(cin.groupParam) = "none"
                    THEN "active"
                    ELSE AskedGroup(cin.groupParam)
    /\ cout.key[1] = cout.group
    /\ cout.source[2] = cout.group
    /\ cout.status = 200 => cout.body.group = cout.group
    /\ cout.status = 502 => \E i \in Indices(cin.payload) : cin.payload[i] = Null

\* C10 witness: a request for an unknown group was answered with the
\* snapshot of the default group
C10_Witness ==
  /\ cout.stage = "done" /\ cout.status = 200
  /\ cin.groupParam = Str("bogus")
  /\ cout.body.group = "active"
  /\ Len(cin.payload) > 0

(***************************************************************************)
(* The abort timer, the expiry of stored entries, concurrent misses        *)
(***************************************************************************)
\* The abort timer of request r, armed at route.ts:153 when the fetch starts,
\* would have fired by now
PastDeadline(r) == clock >= rq[r].now + REQUEST_TIMEOUT_MS

\* C17: an upstream fetch that has not delivered both the response status
\* and the response body when the fixed timeout has passed is aborted: from
\* then on the only thing that happens to its request is the abort, which
\* answers it with an error envelope.
C17_UndeliveredFetchAborted ==
  [][\A r \in Requests :
       /\ rq[r].pc \in {"fetch", "body"}
       /\ PastDeadline(r)
       /\ rq'[r] # rq[r]
       => /\ last'.id = rq[r].id
          /\ IsErrorEnvelope(last'.body)
          /\ last'.body = errorResponse("This operation was aborted").body]_vars

\* C18: every entry of the position table expires 5 seconds after the
\* instant at which its snapshot was computed and stored, so it is
\* unexpired when it is stored.
C18_ExpiryCountsFromStore ==
  \A key \in DOMAIN positionCache :
    positionCache[key].expiresAt =
      positionCache[key].value.computedAt + POSITION_CACHE_TTL_MS

\* The step stores into the position table
StoresPosition == positionCache' # positionCache
\* The step stores into the element-set table
StoresOrbit == orbitCache' # orbitCache
\* Request r is the one that takes this step
Acts(r) == rq'[r] # rq[r]

\* C19: with requests for the same key in progress together, a request ends
\* with a complete snapshot or with an error envelope; a table changes only
\* when one request stores, the entry under that request's key then being
\* in whole what this one request made (its own expiry, its own snapshot)
\* and every other entry being left as it was; so each table holds, for
\* each key, the entry of the request that stored last.
C19_EntriesWholeLastWriterWins ==
  [][/\ Answered =>
          \/ last'.status = 200 /\ ConsistentSnapshot(last'.body)
          \/ last'.status = 502 /\ IsErrorEnvelope(last'.body)
     /\ StoresPosition =>
          /\ Answered /\ last'.computed
          /\ DOMAIN positionCache' = DOMAIN positionCache \cup {KeyOf(last')}
          /\ positionCache'[KeyOf(last')] =
               [expiresAt |-> last'.now + POSITION_CACHE_TTL_MS,
                value |-> last'.body]
          /\ \A k \in DOMAIN positionCache \ {KeyOf(last')} :
               positionCache'[k] = positionCache[k]
     /\ StoresOrbit =>
          \E r \in Requests :
            /\ Acts(r) /\ rq'[r].wroteOrbit /\ ~rq[r].wroteOrbit
            /\ \A q \in Requests \ {r} : ~Acts(q)
            /\ DOMAIN orbitCache' = DOMAIN orbitCache \cup {rq[r].group}
            /\ orbitCache'[rq[r].group] =
                 [expiresAt |-> rq[r].now + ORBIT_CACHE_TTL_MS,
                  value |-> rq'[r].orbitSet]
            /\ \A g \in DOMAIN orbitCache \ {rq[r].group} :
                 orbitCache'[g] = orbitCache[g]
            /\ rq'[r].orbitSet.source = buildGroupFeedUrl(rq[r].group)]_vars

\* C19 witness: two requests missed on the same key while neither had
\* stored, both stored, and the table holds the entry of the one that
\* stored last, which is the one that had arrived first
C19_Witness ==
  /\ computeCount = 2
  /\ last.id = 1 /\ last.computed /\ last.fetches = 1
  /\ clock > last.now
  /\ DOMAIN positionCache = {KeyOf(last)}
  /\ positionCache[KeyOf(last)].value = last.body
  /\ positionCache[KeyOf(last)].expiresAt = last.now + POSITION_CACHE_TTL_MS
(***************************************************************************)
(* The globe component (src/app/components/satellite-globe.tsx): its       *)
(* longitude arithmetic and easing.  Degrees are plain integers counting   *)
(* thousandths; progress and eased progress count thousandths of the       *)
(* transition (Unit is 1).                                                 *)
(***************************************************************************)
\* Integer division that truncates toward zero, as Math.trunc(a / b), b > 0
DivT(a, b) == IF a >= 0 THEN a \div b ELSE -((-a) \div b)
\* The % of JavaScript: the result has the sign of the dividend
JsMod(a, n) == IF a >= 0 THEN a % n ELSE -((-a) % n)

\* satellite-globe.tsx:68-78
normalizeLongitudeClient(lon) ==
  IF lon > 180 * Unit
  THEN lon - 360 * Unit
  ELSE IF lon < -180 * Unit
       THEN lon + 360 * Unit
       ELSE lon

\* satellite-globe.tsx:80-86, on thousandths
easeInOutCubic(value) ==
  IF value < Unit \div 2
  THEN DivT(4 * value * value * value, Unit * Unit)
  ELSE Unit - DivT((2 * Unit - 2 * value) * (2 * Unit - 2 * value)
                     * (2 * Unit - 2 * value), 2 * Unit * Unit)

\* The plain difference of the two longitudes
longitudeDelta_Plain(from, to) == to - from

\* satellite-globe.tsx:88-90
longitudeDelta(from, to) ==
  JsMod(to - from + 540 * Unit, 360 * Unit) - 180 * Unit

\* from + (to - from) * eased (satellite-globe.tsx:224, 230-231)
interpolate(from, to, eased) == from + DivT((to - from) * eased, Unit)

\* satellite-globe.tsx:225-229
interpolateLongitude(from, to, eased) ==
  normalizeLongitudeClient(
    from + DivT(longitudeDelta(from, to) * eased, Unit))

(***************************************************************************)
(* The longitude computations on their own: the server's normalization     *)
(* applied once and once more to a longitude, and the globe's shortest-arc *)
(* interpolation between two longitudes at an eased progress.              *)
(***************************************************************************)
\* Longitudes in [-180, 180]: every 30 degrees, the neighbours of the
\* antimeridian and of the prime meridian
LonSamples ==
  {k * 30 * Unit : k \in -6..6}
    \cup {179 * Unit, -179 * Unit, 180 * Unit - 1, 1 - 180 * Unit, 1, -1}
\* Eased progress in [0, 1]
EasedSamples == {0, 1, Unit \div 16, Unit \div 4, Unit \div 2,
                 3 * (Unit \div 4), Unit - 1, Unit}
\* Longitudes in and around [-540, 540]: every 15 degrees and the
\* neighbours of the four boundaries
WideLonSamples ==
  {k * 15 * Unit : k \in -48..48}
    \cup {b * Unit + e : b \in {-540, -180, 180, 540}, e \in {-1, 1}}

LonInit ==
  /\ clock = 0
  /\ orbitCache = EmptyMap
  /\ positionCache = EmptyMap
  /\ rq = [r \in Requests |-> IdleRequest]
  /\ last = NoneFinished
  /\ computeCount = 0
  /\ orbitSets = {}
  /\ arrivals = 0
  /\ ticks = 0
  /\ cin = NoColdInput
  /\ cout = ColdStart
  /\ lin \in {[NoLonInput EXCEPT !.kind = "normalize", !.lon = x] :
                x \in WideLonSamples}
          \cup {[NoLonInput EXCEPT !.kind = "interpolate", !.from = f,
                                   !.to = t, !.eased = e] :
                  f \in LonSamples, t \in LonSamples, e \in EasedSamples}
  /\ lout = LonStart
  /\ ClientConstructed

\* route.ts:96-110 applied to the input
LonNormalize ==
  /\ lin.kind = "normalize" /\ lout.stage = "start"
  /\ lout' = [lout EXCEPT !.stage = "once",
                          !.once = normalizeLongitude(Num(lin.lon))]
  /\ UNCHANGED <<lin, serverVars, coldVars, clientVars>>

\* route.ts:96-110 applied to its own result
LonNormalizeAgain ==
  /\ lin.kind = "normalize" /\ lout.stage = "once"
  /\ lout' = [lout EXCEPT !.stage = "twice",
                          !.twice = normalizeLongitude(lout.once)]
  /\ UNCHANGED <<lin, serverVars, coldVars, clientVars>>

\* satellite-globe.tsx:88-90
LonDelta ==
  /\ lin.kind = "interpolate" /\ lout.stage = "start"
  /\ lout' = [lout EXCEPT !.stage = "delta",
                          !.delta = longitudeDelta(lin.from, lin.to)]
  /\ UNCHANGED <<lin, serverVars, coldVars, clientVars>>

\* satellite-globe.tsx:225-229
LonInterpolate ==
  /\ lin.kind = "interpolate" /\ lout.stage = "delta"
  /\ lout' = [lout EXCEPT !.stage = "done",
                !.lng = interpolateLongitude(lin.from, lin.to, lin.eased)]
  /\ UNCHANGED <<lin, serverVars, coldVars, clientVars>>

LonNext == LonNormalize \/ LonNormalizeAgain \/ LonDelta \/ LonInterpolate

LonSpec == LonInit /\ [][LonNext]_vars

InDegrees(x, lo, hi) == lo * Unit <= x /\ x <= hi * Unit

\* C13: for 'from' and 'to' in [-180, 180], longitudeDelta(from, to) lies in
\* [-180, 180) and from + delta is congruent to 'to' modulo 360; from 179 to
\* -179 the delta is eastward (+2) and every interpolated longitude is on
\* the antimeridian side (absolute value at least 179), never near 0; every
\* interpolated longitude, after normalization, is in [-180, 180] for every
\* eased progress in [0, 1].
C13_ShortestArcThroughAntimeridian ==
  /\ lin.kind = "interpolate" /\ lout.stage \in {"delta", "done"} =>
       /\ InDegrees(lout.delta, -180, 180) /\ lout.delta # 180 * Unit
       /\ (lin.from + lout.delta - lin.to) % (360 * Unit) = 0
  /\ lin.kind = "interpolate" /\ lout.stage = "done" =>
       /\ InDegrees(lout.lng, -180, 180)
       /\ lin.from = 179 * Unit /\ lin.to = -179 * Unit =>
            /\ lout.delta = 2 * Unit
            /\ lout.lng >= 179 * Unit \/ lout.lng <= -179 * Unit

\* C13 witness: half way from 179 to -179 the point is on the antimeridian
C13_Witness ==
  /\ lin.kind = "interpolate" /\ lout.stage = "done"
  /\ lin.from = 179 * Unit /\ lin.to = -179 * Unit
  /\ lin.eased = Unit \div 2
  /\ lout.lng = 180 * Unit

\* C14: for every longitude in [-540, 540] the server's normalizeLongitude
\* returns a value in [-180, 180] that differs from the input by 0 or by
\* exactly 360, and applied to its own result it returns that result.
C14_NormalizeIntoRangeIdempotent ==
  /\ lin.kind = "normalize" /\ InDegrees(lin.lon, -540, 540)
       /\ lout.stage \in {"once", "twice"} =>
       /\ IsFinite(lout.once)
       /\ InDegrees(lout.once.v, -180, 180)
       /\ lin.lon - lout.once.v \in {0, 360 * Unit, -360 * Unit}
  /\ lin.kind = "normalize" /\ InDegrees(lin.lon, -540, 540)
       /\ lout.stage = "twice" =>
       lout.twice = lout.once

\* C14 witness: 540 is normalized to 180, and 180 to itself
C14_Witness ==
  /\ lin.kind = "normalize" /\ lout.stage = "twice"
  /\ lin.lon = 540 * Unit
  /\ lout.once = Num(180 * Unit) /\ lout.twice = Num(180 * Unit)
(***************************************************************************)
(* The globe component: points and maps.  A Map<number, SatellitePoint> is *)
(* the sequence of its values in insertion order, each value carrying its  *)
(* key (noradId).  Of a point the model keeps the identifier and the       *)
(* numbers the engine computes; name, speed, bucket and colour are copied  *)
(* from the target unchanged and are left out.  pointAltitude counts       *)
(* millionths.                                                             *)
(***************************************************************************)
MaxOf(a, b) == IF a >= b THEN a ELSE b
MinOf(a, b) == IF a <= b THEN a ELSE b

PointIds(m) == {m[i].noradId : i \in DOMAIN m}
\* Map.prototype.get, for a key the map has
MapGetPoint(m, id) == m[CHOOSE i \in DOMAIN m : m[i].noradId = id]
\* Map.prototype.set: a key already present keeps its place
MapPutPoint(m, p) ==
  IF p.noradId \in PointIds(m)
  THEN [i \in DOMAIN m |-> IF m[i].noradId = p.noradId THEN p ELSE m[i]]
  ELSE Append(m, p)

\* Math.max(0.0015, altitudeKm / EARTH_RADIUS_KM) (satellite-globe.tsx:143,
\* 238)
pointAltitudeOf(altitudeKm) ==
  MaxOf(15 * 100, DivT(altitudeKm * Unit, EARTH_RADIUS_KM))

\* satellite-globe.tsx:135-145
makeSatellitePoint(satellite) ==
  [noradId |-> satellite.noradId,
   lat |-> satellite.lat,
   lng |-> normalizeLongitudeClient(satellite.lon),
   altitudeKm |-> satellite.altitudeKm,
   pointAltitude |-> pointAltitudeOf(satellite.altitudeKm)]

\* satellite-globe.tsx:257-261
RECURSIVE targetFrom(_, _, _)
targetFrom(incomingSatellites, i, targetMap) ==
  IF i > Len(incomingSatellites)
  THEN targetMap
  ELSE targetFrom(incomingSatellites, i + 1,
                  MapPutPoint(targetMap,
                              makeSatellitePoint(incomingSatellites[i])))
targetMapOf(incomingSatellites) == targetFrom(incomingSatellites, 1, <<>>)

\* satellite-globe.tsx:269-273
fromMapOf(rendered, targetMap) ==
  [i \in DOMAIN targetMap |->
     IF targetMap[i].noradId \in PointIds(rendered)
     THEN MapGetPoint(rendered, targetMap[i].noradId)
     ELSE targetMap[i]]

\* satellite-globe.tsx:214-217
progressOf(frameTimeMs, transition) ==
  MinOf(Unit, DivT((frameTimeMs - transition.startMs) * Unit,
                   transition.durationMs))

\* The body of the loop of animateStep (satellite-globe.tsx:222-241)
framePoint(transition, target, eased) ==
  LET from == IF target.noradId \in PointIds(transition.from)
              THEN MapGetPoint(transition.from, target.noradId)
              ELSE target
      nextAltitudeKm == interpolate(from.altitudeKm, target.altitudeKm, eased)
  IN [noradId |-> target.noradId,
      lat |-> interpolate(from.lat, target.lat, eased),
      lng |-> interpolateLongitude(from.lng, target.lng, eased),
      altitudeKm |-> nextAltitudeKm,
      pointAltitude |-> pointAltitudeOf(nextAltitudeKm)]

\* nextMap of animateStep (satellite-globe.tsx:219-241)
frameMap(transition, eased) ==
  [i \in DOMAIN transition.to |-> framePoint(transition, transition.to[i], eased)]

(***************************************************************************)
(* The transition engine (satellite-globe.tsx:206-295)                     *)
(***************************************************************************)
\* The handle window.requestAnimationFrame returns: one no pending callback
\* has
NewHandle(pending) ==
  CHOOSE h \in 1..(Cardinality(pending) + 1) :
    h \notin pending /\ \A k \in 1..(h - 1) : k \in pending

\* A test that never finds a callback requested
frameRequested_Never == FALSE

\* animationFrameRef.current !== null (satellite-globe.tsx:282)
frameRequested == animationFrameRef # NoFrame

\* satellite-globe.tsx:255-287; snapshots and latest record the call
startTransition(incomingSatellites) ==
  LET targetMap == targetMapOf(incomingSatellites)
  IN /\ snapshots' = snapshots + 1
     /\ latest' = incomingSatellites
     /\ UNCHANGED frameLog
     /\ IF Len(renderedMapRef) = 0
        THEN /\ renderedMapRef' = targetMap
             /\ renderedSatellites' = targetMap
             /\ UNCHANGED <<transitionRef, animationFrameRef, frames>>
        ELSE /\ transitionRef' =
                  [durationMs |-> MOTION_DURATION_MS,
                   from |-> fromMapOf(renderedMapRef, targetMap),
                   startMs |-> perfNow,
                   to |-> targetMap]
             /\ IF frameRequested
                THEN UNCHANGED <<animationFrameRef, frames>>
                ELSE /\ animationFrameRef' = NewHandle(frames)
                     /\ frames' = frames \cup {NewHandle(frames)}
             /\ UNCHANGED <<renderedMapRef, renderedSatellites>>

\* satellite-globe.tsx:206-253, called by the browser with the callbacks
\* still pending
animateStep(frameTimeMs, pending) ==
  IF transitionRef = Null
  THEN /\ animationFrameRef' = NoFrame
       /\ frames' = pending
       /\ frameLog' = [frameLog EXCEPT !.timestamp = frameTimeMs]
       /\ UNCHANGED <<renderedMapRef, renderedSatellites, transitionRef>>
  ELSE LET progress == progressOf(frameTimeMs, transitionRef)
           eased == easeInOutCubic(progress)
           nextMap == frameMap(transitionRef, eased)
       IN /\ frameLog' = [timestamp |-> frameTimeMs, progress |-> progress]
          /\ renderedMapRef' = nextMap
          /\ renderedSatellites' = nextMap
          /\ IF progress < Unit
             THEN /\ animationFrameRef' = NewHandle(pending)
                  /\ frames' = pending \cup {NewHandle(pending)}
                  /\ UNCHANGED transitionRef
             ELSE /\ transitionRef' = Null
                  /\ animationFrameRef' = NoFrame
                  /\ frames' = pending

\* The browser runs a pending frame callback.  Its timestamp is the instant
\* at which the browser began the frame: not later than performance.now(),
\* not earlier than the timestamp of the frame before, and earlier by lag
\* than performance.now() when tasks have run since the frame began.
Frame(h, lag) ==
  /\ h \in frames
  /\ perfNow - lag >= frameLog.timestamp
  /\ animateStep(perfNow - lag, frames \ {h})
  /\ UNCHANGED <<snapshots, latest, perfNow, elapses, feedVars, sessionVars,
                 serverVars, coldVars, lonVars>>

\* Time passes in the browser
Elapse(d) ==
  /\ elapses < MaxElapses
  /\ perfNow' = perfNow + d
  /\ elapses' = elapses + 1
  /\ UNCHANGED <<engineVars, feedVars, sessionVars, serverVars, coldVars,
                 lonVars>>

(***************************************************************************)
(* The refresh effect (satellite-globe.tsx:297-348): one session per run   *)
(* of the effect, with its closure variables isActive and                  *)
(* isRequestInFlight, its interval timer and its requests.                 *)
(***************************************************************************)
\* A guard that lets every call through
refreshSuppressed_Never(s) == FALSE

\* if (isRequestInFlight) return (satellite-globe.tsx:302-304)
refreshSuppressed(s) == sess[s].isRequestInFlight

\* A guard that discards nothing
discardsResult_Never(s) == FALSE

\* if (!isActive) return (satellite-globe.tsx:319-321, 328-330)
discardsResult(s) == ~sess[s].isActive

\* The cleanup of the effect (satellite-globe.tsx:344-347)
TornDown(q) == [q EXCEPT !.isActive = FALSE, !.intervalId = FALSE]

\* A run of the effect: the cleanup of the previous run if there is one,
\* then lines 298-342: the closure, the first call of fetchSatellites, the
\* interval timer
RunEffect(g) ==
  /\ session < MaxSessions
  /\ fetches < MaxFetches
  /\ session' = session + 1
  /\ fetches' = fetches + 1
  /\ sess' = [s \in Sessions |->
               IF s = session + 1
               THEN [isActive |-> TRUE, isRequestInFlight |-> TRUE,
                     intervalId |-> TRUE, group |-> g, awaitingHead |-> 1,
                     awaitingBody |-> 0, started |-> 1]
               ELSE TornDown(sess[s])]

\* The component's effects run after the first render
Mount ==
  /\ mounted /\ session = 0
  /\ RunEffect(groupState)
  /\ UNCHANGED <<mounted, groupState, perfNow, elapses, engineVars, feedVars,
                 serverVars, coldVars, lonVars>>

\* The user picks another group (setGroup): the effect is cleaned up and
\* run again
SetGroup(g) ==
  /\ mounted /\ session > 0
  /\ g # groupState
  /\ groupState' = g
  /\ RunEffect(g)
  /\ UNCHANGED <<mounted, perfNow, elapses, engineVars, feedVars,
                 serverVars, coldVars, lonVars>>

\* The component is removed: the cleanups of both effects
\* (satellite-globe.tsx:289-295, 344-347)
Unmount ==
  /\ mounted /\ session > 0
  /\ mounted' = FALSE
  /\ sess' = [s \in Sessions |-> TornDown(sess[s])]
  /\ frames' = IF animationFrameRef # NoFrame
               THEN frames \ {animationFrameRef}
               ELSE frames
  /\ UNCHANGED <<groupState, session, fetches, perfNow, elapses,
                 renderedSatellites, transitionRef, animationFrameRef,
                 renderedMapRef, snapshots, latest, frameLog, feedVars,
                 serverVars, coldVars, lonVars>>

\* The interval timer of session s fires and calls fetchSatellites
\* (satellite-globe.tsx:340-342, 301-307)
TimerTick(s) ==
  /\ sess[s].intervalId
  /\ IF refreshSuppressed(s)
     THEN UNCHANGED <<sess, fetches>>
     ELSE /\ fetches < MaxFetches
          /\ fetches' = fetches + 1
          /\ sess' = [sess EXCEPT ![s].isRequestInFlight = TRUE,
                                  ![s].awaitingHead = @ + 1,
                                  ![s].started = @ + 1]
  /\ UNCHANGED <<mounted, groupState, session, perfNow, elapses, engineVars,
                 feedVars, serverVars, coldVars, lonVars>>

\* The catch and finally blocks of fetchSatellites
\* (satellite-globe.tsx:327-335)
RefreshFails(s, q) ==
  /\ status' = IF discardsResult(s) THEN status ELSE "degraded"
  /\ sess' = [sess EXCEPT ![s] = [q EXCEPT !.isRequestInFlight = FALSE]]
  /\ UNCHANGED <<lastComputedAt, totalOrbits, engineVars>>

\* The fetch of a request of session s settles (satellite-globe.tsx:309-315):
\* a response with an ok status, or a rejection or a response that is not ok
ResponseHead(s, ok) ==
  /\ sess[s].awaitingHead > 0
  /\ IF ok
     THEN /\ sess' = [sess EXCEPT ![s].awaitingHead = @ - 1,
                                  ![s].awaitingBody = @ + 1]
          /\ UNCHANGED <<feedVars, engineVars>>
     ELSE RefreshFails(s, [sess[s] EXCEPT !.awaitingHead = @ - 1])
  /\ UNCHANGED <<mounted, groupState, session, fetches, perfNow, elapses,
                 serverVars, coldVars, lonVars>>

\* response.json() settles (satellite-globe.tsx:317-335): the payload, or a
\* body that does not parse
ResponseBody(s, payload) ==
  /\ sess[s].awaitingBody > 0
  /\ IF payload = Null
     THEN RefreshFails(s, [sess[s] EXCEPT !.awaitingBody = @ - 1])
     ELSE /\ IF discardsResult(s)
             THEN UNCHANGED <<feedVars, engineVars>>
             ELSE /\ startTransition(payload.satellites)
                  /\ totalOrbits' = payload.totalOrbits
                  /\ lastComputedAt' = payload.computedAt
                  /\ status' = "live"
          /\ sess' = [sess EXCEPT ![s].awaitingBody = @ - 1,
                                  ![s].isRequestInFlight = FALSE]
  /\ UNCHANGED <<mounted, groupState, session, fetches, perfNow, elapses,
                 serverVars, coldVars, lonVars>>

\* What the endpoint may answer with
Sat(noradId, lat, lon, altitudeKm) ==
  [noradId |-> noradId, lat |-> lat * Unit, lon |-> lon * Unit,
   altitudeKm |-> altitudeKm * Unit]
SnapshotA == <<Sat(1, 10, 179, 400), Sat(2, -20, 0, 550)>>
SnapshotB == <<Sat(1, 12, -179, 410), Sat(3, 5, 90, 9)>>
Payload(satellites, computedAt) ==
  [satellites |-> satellites, totalOrbits |-> Len(satellites) + 1,
   computedAt |-> computedAt]
Payloads ==
  {Payload(SnapshotA, Str("t1")), Payload(SnapshotB, Str("t2")),
   Payload(<<>>, Str("t3"))}
ClientGroups == {"active", "stations"}
ElapseSteps == {MOTION_DURATION_MS \div 4, REFRESH_INTERVAL_MS}
\* The handles a frame callback can have: there are never more pending
\* callbacks than transitions started
Handles == 1..(MaxFetches + 1)
\* How long before performance.now() a frame may have begun: not at all, or
\* the length of a frame at 60 Hz
FrameLags == {0, 16}

ClientInit ==
  /\ clock = 0
  /\ orbitCache = EmptyMap
  /\ positionCache = EmptyMap
  /\ rq = [r \in Requests |-> IdleRequest]
  /\ last = NoneFinished
  /\ computeCount = 0
  /\ orbitSets = {}
  /\ arrivals = 0
  /\ ticks = 0
  /\ cin = NoColdInput
  /\ cout = ColdStart
  /\ lin = NoLonInput
  /\ lout = LonStart
  /\ ClientConstructed

ClientNext ==
  \/ Mount
  \/ \E g \in ClientGroups : SetGroup(g)
  \/ Unmount
  \/ \E s \in Sessions : TimerTick(s)
  \/ \E s \in Sessions, ok \in BOOLEAN : ResponseHead(s, ok)
  \/ \E s \in Sessions, p \in Payloads \cup {Null} : ResponseBody(s, p)
  \/ \E h \in Handles, lag \in FrameLags : Frame(h, lag)
  \/ \E d \in ElapseSteps : Elapse(d)

ClientSpec == ClientInit /\ [][ClientNext]_vars
(***************************************************************************)
(* Properties of the globe component under ClientSpec                      *)
(***************************************************************************)
\* The engine is Idle: the transition is cleared and no frame callback is
\* pending
Idle == transitionRef = Null /\ frames = {}
\* The engine is Animating
Animating == transitionRef # Null /\ frames # {}
\* Two points are at the same latitude, longitude and altitude
SamePlace(p, q) ==
  p.lat = q.lat /\ p.lng = q.lng /\ p.altitudeKm = q.altitudeKm
\* The map shows exactly the identifiers of the snapshot, each at the
\* snapshot's target position
Shows(m, incomingSatellites) ==
  LET targetMap == targetMapOf(incomingSatellites)
  IN /\ Len(m) = Len(targetMap)
     /\ PointIds(m) = PointIds(targetMap)
     /\ \A i \in DOMAIN m :
          SamePlace(m[i], MapGetPoint(targetMap, m[i].noradId))
\* The step hands a snapshot to startTransition
SnapshotArrives == snapshots' = snapshots + 1

\* C11: whenever the engine is Idle and at least one snapshot has arrived,
\* the rendered map holds exactly the identifiers of the most recently
\* arrived snapshot, each at that snapshot's target latitude, longitude and
\* altitude.
C11_IdleShowsLatestSnapshot ==
  Idle /\ snapshots >= 1 => Shows(renderedMapRef, latest)
\* C12: when a snapshot arrives while a transition is in flight, the
\* transition is replaced by one to the new snapshot that starts now, and
\* the 'from' position of every identifier that is rendered is its rendered
\* position, the one the most recent frame produced.
C12_MidFlightStartsFromRendered ==
  [][SnapshotArrives /\ transitionRef # Null =>
       /\ transitionRef' # Null
       /\ transitionRef'.to = targetMapOf(latest')
       /\ transitionRef'.startMs = perfNow
       /\ \A id \in PointIds(transitionRef'.to) \cap PointIds(renderedMapRef) :
            SamePlace(MapGetPoint(transitionRef'.from, id),
                      MapGetPoint(renderedMapRef, id))]_vars

\* The requests of session s that are outstanding
Outstanding(s) == sess[s].awaitingHead + sess[s].awaitingBody
\* The step ends a refresh of session s: its request has failed, or its
\* payload has been read
Settles(s) ==
  sess'[s].awaitingHead + sess'[s].awaitingBody < Outstanding(s)
\* Session s has been torn down
TornDownSession(s) == sess[s].started > 0 /\ ~sess[s].isActive

\* C15: once a session is torn down (unmount or group change), the step in
\* which a request it had started ends, with a payload or with a failure,
\* changes neither the rendered map, nor the transition, nor totalOrbits,
\* nor the last computed-at time, nor the feed status.
C15_TornDownSessionChangesNothing ==
  [][\A s \in Sessions :
       TornDownSession(s) /\ Settles(s) =>
         UNCHANGED <<renderedMapRef, renderedSatellites, transitionRef,
                     totalOrbits, lastComputedAt, status>>]_vars

\* C15 witness: the request of the first session ended after the session
\* had been torn down by a group change, and nothing of it is shown (had it
\* ended before, a snapshot would have arrived or the status be degraded)
C15_Witness ==
  /\ session = 2 /\ TornDownSession(1)
  /\ sess[1].started = 1 /\ Outstanding(1) = 0
  /\ snapshots = 0 /\ status = "live" /\ lastComputedAt = Null
  /\ sess[2].awaitingBody = 1

\* C16: a session never has more than one refresh request outstanding; no
\* request is started while one is in flight, a timer tick included; and
\* the step that ends a refresh (success, failure or a discarded result)
\* clears the in-flight flag.
C16_OneRefreshAtATime ==
  [][\A s \in Sessions :
       /\ sess'[s].awaitingHead + sess'[s].awaitingBody <= 1
       /\ sess[s].isRequestInFlight => sess'[s].started = sess[s].started
       /\ Settles(s) => ~sess'[s].isRequestInFlight]_vars

\* C16 witness: after a first refresh had ended, a timer tick started the
\* second request of the session, which is outstanding
C16_Witness ==
  \E s \in Sessions :
    /\ sess[s].started = 2 /\ Outstanding(s) = 1
    /\ sess[s].isRequestInFlight /\ sess[s].isActive

\* C20: the first snapshot that arrives replaces the rendered map at once,
\* creates no transition and schedules no frame; every later snapshot
\* creates a transition to it, the engine being Animating, whose 'from' map
\* pairs each identifier of the snapshot with its previously rendered
\* point, or with its own target point when it was not rendered.
C20_FirstReplacesLaterAnimate ==
  [][SnapshotArrives =>
       LET targetMap == targetMapOf(latest')
       IN IF snapshots = 0
          THEN /\ renderedMapRef' = targetMap
               /\ renderedSatellites' = targetMap
               /\ transitionRef' = Null
               /\ frames' = frames /\ animationFrameRef' = animationFrameRef
          ELSE /\ transitionRef' # Null
               /\ frames' # {}
               /\ transitionRef'.to = targetMap
               /\ DOMAIN transitionRef'.from = DOMAIN targetMap
               /\ \A i \in DOMAIN targetMap :
                    transitionRef'.from[i] =
                      IF targetMap[i].noradId \in PointIds(renderedMapRef)
                      THEN MapGetPoint(renderedMapRef, targetMap[i].noradId)
                      ELSE targetMap[i]]_vars
\* The step runs a frame of a transition in flight
FrameRuns ==
  /\ snapshots' = snapshots
  /\ transitionRef # Null
  /\ \/ frameLog' # frameLog
     \/ renderedMapRef' # renderedMapRef
     \/ transitionRef' = Null
\* x lies between a and b, ends included
Between(x, a, b) == (a <= x /\ x <= b) \/ (b <= x /\ x <= a)
\* clamp(value, 0, 1) on thousandths
Clamp01(value) == MaxOf(0, MinOf(Unit, value))

\* C21: on every animation frame the progress used for the interpolation is
\* (timestamp - start) / duration clamped to [0, 1], and each interpolated
\* latitude and altitude lies between its 'from' value and its 'to' value.
C21_ProgressClamped ==
  [][FrameRuns =>
       /\ frameLog'.progress =
            Clamp01(DivT((frameLog'.timestamp - transitionRef.startMs) * Unit,
                         transitionRef.durationMs))
       /\ DOMAIN renderedMapRef' = DOMAIN transitionRef.to
       /\ \A i \in DOMAIN transitionRef.to :
            /\ Between(renderedMapRef'[i].lat,
                       transitionRef.from[i].lat, transitionRef.to[i].lat)
            /\ Between(renderedMapRef'[i].altitudeKm,
                       transitionRef.from[i].altitudeKm,
                       transitionRef.to[i].altitudeKm)]_vars
\* C22: at every moment at most one frame callback is scheduled, and only
\* while a transition is active; none remains scheduled once a frame has
\* run with progress 1; after the component is unmounted no callback
\* remains scheduled and no frame runs.
C22_OneFrameOnlyWhileAnimating ==
  [][/\ Cardinality(frames') <= 1
     /\ frames' # {} => transitionRef' # Null
     /\ FrameRuns /\ frameLog'.progress = Unit =>
          frames' = {} /\ animationFrameRef' = NoFrame
     /\ ~mounted' => frames' = {}
     /\ ~mounted => frameLog' = frameLog /\ renderedMapRef' = renderedMapRef]_vars

\* C22 witness: the component was unmounted while a transition was in
\* flight after a first frame; the callback it had requested is cancelled
C22_Witness ==
  /\ ~mounted /\ transitionRef # Null
  /\ animationFrameRef # NoFrame /\ frames = {}
  /\ frameLog.progress > 0 /\ frameLog.progress < Unit
(***************************************************************************)
(* Identifiers within a snapshot, under ColdSpec                           *)
(***************************************************************************)
\* No two entities of the list have the same identifier
DistinctIdentifiers(q) ==
  \A i \in Indices(q), j \in Indices(q) :
    i # j => q[i].noradId # q[j].noradId
\* The size of the targetMap startTransition builds from the served list:
\* one point per key (satellite-globe.tsx:257-261)
PointsRendered(satellites) ==
  Cardinality({satellites[i].noradId : i \in Indices(satellites)})

\* C23: within the element-set snapshot the loader builds, and within the
\* served position list, no two entities share an identifier, and the
\* number of points the globe renders for the snapshot equals its count.
C23_IdentifiersUnique ==
  /\ cout.stage \in {"normalized", "done"} => DistinctIdentifiers(cout.records)
  /\ cout.stage = "done" /\ cout.status = 200 =>
       /\ DistinctIdentifiers(cout.body.satellites)
       /\ PointsRendered(cout.body.satellites) = cout.body.count
====
